---- MODULE Spec2Model ----
(***************************************************************************)
(* A model of py2mint/deco.py: the argument merger, the per-argument       *)
(* transform layer, the pre/post decorator, the class method wrappers, the *)
(* method input/output wrapper, the call logger and the expansion of a     *)
(* methods_specs_dict.                                                     *)
(*                                                                         *)
(* User-supplied callables (the wrapped function, the transform functions, *)
(* the method wrappers) are parameters of the library, so they are kept    *)
(* symbolic: a function returns the mapping of its bound parameters, a     *)
(* transform marks the value it was applied to, a method wrapper adds a    *)
(* layer to the implementation it was given.                               *)
(***************************************************************************)
EXTENDS Integers, Sequences, FiniteSets, TLC

\* ---------------------------------------------------------------- bounds
\* Plain argument values are the integers 0..MaxVal.
MaxVal == 1
\* A call passes at most MaxArgs positional arguments.
MaxArgs == 2
\* At most MaxWraps class wrappings are done, one after the other.
MaxWraps == 2

\* ---------------------------------------------------------------- values
\* The parameter names of the functions under test: def func(a, b, c=3).
ParamNames == <<"a", "b", "c">>

NameSet == {ParamNames[i] : i \in 1..Len(ParamNames)}

\* A plain value n that no transform has touched.
Atom(n) == [v |-> n, by |-> <<>>]

Vals == {Atom(n) : n \in 0..MaxVal}

\* trans_func_for_arg[t](x): the transform registered under the name t,
\* applied to x.
Trans(t, x) == [v |-> x.v, by |-> Append(x.by, t)]

\* A signature of n parameters of which the last d have a default (Python
\* requires defaulted parameters to come last).  Defaults lie outside Vals.
Sig(n, d) ==
    [i \in 1..n |-> [name |-> ParamNames[i],
                     hasDefault |-> i > n - d,
                     default |-> Atom(MaxVal + i)]]

Sigs == {Sig(n, d) : n \in 0..Len(ParamNames), d \in 0..Len(ParamNames)}

SigNames(sig) == {sig[i].name : i \in 1..Len(sig)}

\* An ordered mapping (a dict) is a sequence of [k, x] items with distinct
\* keys, in insertion order.
Keys(m) == {m[i].k : i \in 1..Len(m)}

Get(m, k) == m[CHOOSE i \in 1..Len(m) : m[i].k = k].x

\* m[k] = x on a dict: an existing key keeps its place, a new one goes last.
Put(m, k, x) ==
    IF k \in Keys(m)
    THEN [i \in 1..Len(m) |-> IF m[i].k = k THEN [k |-> k, x |-> x] ELSE m[i]]
    ELSE Append(m, [k |-> k, x |-> x])

DistinctKeys(m) == \A i, j \in 1..Len(m) : m[i].k = m[j].k => i = j

ArgSeqs == UNION {[1..l -> Vals] : l \in 0..MaxArgs}

KwItems == {[k |-> n, x |-> x] : n \in NameSet, x \in Vals}

KwSeqs ==
    {m \in UNION {[1..l -> KwItems] : l \in 0..Len(ParamNames)} : DistinctKeys(m)}

\* The keyword arguments of transform_args(**trans_func_for_arg): the names
\* it targets, in the order given.
TransSpecs ==
    {s \in UNION {[1..l -> NameSet] : l \in 0..Len(ParamNames)} :
        \A i, j \in 1..Len(s) : s[i] = s[j] => i = j}

\* ------------------------------------------------------- calling a function
\* The outcome of a call: its status ("ok", else the exception raised), the
\* value returned and the output transforms applied to that value since.
Raise(e) == [status |-> e, ret |-> <<>>, by |-> <<>>]

MapOk(m) == [status |-> "ok", map |-> m]

MapRaise(e) == [status |-> e, map |-> <<>>]

\* The errors Python raises for positional-or-keyword parameters whether the
\* binding is partial or not: too many positional arguments, several values
\* for one parameter, an unexpected keyword argument.
BindError(sig, args, kwargs) ==
    \/ Len(args) > Len(sig)
    \/ \E i \in 1..Len(args) : i <= Len(sig) /\ sig[i].name \in Keys(kwargs)
    \/ ~(Keys(kwargs) \subseteq SigNames(sig))

RECURSIVE BoundFrom(_, _, _, _, _)
\* The parameters from the i-th on, in declared order, each bound to its
\* positional argument, else to its keyword argument, else (when
\* withDefaults) to its default; a parameter with none of them is left out.
BoundFrom(sig, args, kwargs, withDefaults, i) ==
    IF i > Len(sig) THEN <<>>
    ELSE LET p == sig[i]
             rest == BoundFrom(sig, args, kwargs, withDefaults, i + 1)
         IN  IF i <= Len(args)
             THEN <<[k |-> p.name, x |-> args[i]]>> \o rest
             ELSE IF p.name \in Keys(kwargs)
             THEN <<[k |-> p.name, x |-> Get(kwargs, p.name)]>> \o rest
             ELSE IF withDefaults /\ p.hasDefault
             THEN <<[k |-> p.name, x |-> p.default]>> \o rest
             ELSE rest

\* inspect.signature(func).bind_partial(*args, **kwargs).arguments, with
\* defaults applied: what the code would do had it called apply_defaults().
BindPartialWithDefaults(sig, args, kwargs) ==
    IF BindError(sig, args, kwargs) THEN MapRaise("TypeError")
    ELSE MapOk(BoundFrom(sig, args, kwargs, TRUE, 1))

\* bind_partial that forgets the keyword arguments.
BindPartialNoKwargs(sig, args, kwargs) ==
    IF BindError(sig, args, kwargs) THEN MapRaise("TypeError")
    ELSE MapOk(BoundFrom(sig, args, <<>>, FALSE, 1))

\* inspect.signature(func).bind_partial(*args, **kwargs).arguments
BindPartial(sig, args, kwargs) ==
    IF BindError(sig, args, kwargs) THEN MapRaise("TypeError")
    ELSE MapOk(BoundFrom(sig, args, kwargs, FALSE, 1))

\* func(*args, **kwargs): Python binds every parameter (a parameter with
\* neither an argument nor a default is a TypeError) and the function
\* returns a value determined by all its bound parameters.
Call(sig, args, kwargs) ==
    IF BindError(sig, args, kwargs) THEN Raise("TypeError")
    ELSE IF \E i \in 1..Len(sig) :
                /\ i > Len(args)
                /\ sig[i].name \notin Keys(kwargs)
                /\ ~sig[i].hasDefault
         THEN Raise("TypeError")
         ELSE [status |-> "ok",
               ret |-> BoundFrom(sig, args, kwargs, TRUE, 1),
               by |-> <<>>]

\* A callable object: a plain function is known by its signature, a wrapper
\* by the decorator that made it, the callable it wraps and what it applies.
Function(sig) == [kind |-> "function", sig |-> sig]

\* transform_args that wraps even when it is given no transform.
TransformArgsAlwaysWraps(f, ts) ==
    [kind |-> "transform_args_wrapper", of |-> f, tspec |-> ts]

\* transform_args(**ts)(f): the callable the decorator returns, f itself when
\* no transform is given.
TransformArgsDecorator(f, ts) ==
    IF Len(ts) = 0 THEN f
    ELSE [kind |-> "transform_args_wrapper", of |-> f, tspec |-> ts]

\* input_output_decorator(preprocess, postprocess)(f): the callable the
\* decorator returns, f itself when neither is given.
IODecorator(f, hasPre, hasPost) ==
    IF hasPre \/ hasPost
    THEN [kind |-> "func_wrapper", of |-> f, pre |-> hasPre, post |-> hasPost]
    ELSE f

\* ------------------------------------------------------ mk_args_kwargs_merger
\* The merger that binds even when there are no positional arguments.
MergeAlwaysBind(sig, args, kwargs) == BindPartial(sig, args, kwargs)

\* merge_args_and_kwargs(args, kwargs) of mk_args_kwargs_merger(func)
MergeArgsAndKwargs(sig, args, kwargs) ==
    IF Len(args) > 0 THEN BindPartial(sig, args, kwargs) ELSE MapOk(kwargs)

\* func(**merger(args, kwargs)): an error of the merger reaches the caller.
CallMerged(sig, m) ==
    IF m.status # "ok" THEN Raise(m.status) ELSE Call(sig, <<>>, m.map)

\* ------------------------------------------------------------ transform_args
\* The loop of transform_args_wrapper over trans_func_for_arg.items(), from
\* its i-th item on: val_of_argname[argname] = trans_func(val_of_argname[argname]).
\* A target that val_of_argname does not hold is a KeyError, which ends the
\* loop.  events collects the transform calls made.
RECURSIVE TransformLoopNoStore(_, _, _, _)
\* The loop with the transform called and its result not stored.
TransformLoopNoStore(val, tspec, i, events) ==
    IF i > Len(tspec) THEN [status |-> "ok", map |-> val, events |-> events]
    ELSE IF tspec[i] \notin Keys(val)
    THEN [status |-> "KeyError", map |-> val, events |-> events]
    ELSE LET x == Get(val, tspec[i])
         IN  TransformLoopNoStore(val, tspec, i + 1,
                           Append(events, [e |-> "trans", name |-> tspec[i], x |-> x]))

\* The loop that passes over a targeted name the call gave no value for.
RECURSIVE TransformLoopSkipMissing(_, _, _, _)

TransformLoopSkipMissing(val, tspec, i, events) ==
    IF i > Len(tspec) THEN [status |-> "ok", map |-> val, events |-> events]
    ELSE IF tspec[i] \notin Keys(val)
    THEN TransformLoopSkipMissing(val, tspec, i + 1, events)
    ELSE LET x == Get(val, tspec[i])
         IN  TransformLoopSkipMissing(Put(val, tspec[i], Trans(tspec[i], x)),
                                      tspec, i + 1,
                                      Append(events, [e |-> "trans", name |-> tspec[i], x |-> x]))

RECURSIVE TransformLoop(_, _, _, _)
TransformLoop(val, tspec, i, events) ==
    IF i > Len(tspec) THEN [status |-> "ok", map |-> val, events |-> events]
    ELSE IF tspec[i] \notin Keys(val)
    THEN [status |-> "KeyError", map |-> val, events |-> events]
    ELSE LET x == Get(val, tspec[i])
         IN  TransformLoop(Put(val, tspec[i], Trans(tspec[i], x)), tspec, i + 1,
                           Append(events, [e |-> "trans", name |-> tspec[i], x |-> x]))

\* One attempt to invoke the underlying callable.
CallEvent(a, kw) == [e |-> "call", args |-> a, kwargs |-> kw]

\* transform_args(**tspec)(func)(*args, **kwargs): what it returns or raises
\* and, in order, the transform calls and calls of func it makes.
TransformArgsCall(sig, tspec, a, kw) ==
    IF Len(tspec) = 0
    THEN \* the decorator returned func itself
         [res |-> Call(sig, a, kw), events |-> <<CallEvent(a, kw)>>]
    ELSE LET m == IF Len(a) > 0 THEN BindPartial(sig, a, kw) ELSE MapOk(kw)
         IN  IF m.status # "ok" THEN [res |-> Raise(m.status), events |-> <<>>]
             ELSE LET t == TransformLoop(m.map, tspec, 1, <<>>)
                  IN  IF t.status # "ok"
                      THEN [res |-> Raise(t.status), events |-> t.events]
                      ELSE [res |-> Call(sig, <<>>, t.map),
                            events |-> Append(t.events, CallEvent(<<>>, t.map))]

\* ---------------------------------------------------- input_output_decorator
\* What the symbolic preprocess returns when called as preprocess(*a, **kw):
\* a new (args, kwargs) pair, every value of it marked as preprocessed.
PreResult(a, kw) ==
    [pargs |-> [i \in 1..Len(a) |-> Trans("pre", a[i])],
     pkwargs |-> [i \in 1..Len(kw) |-> [k |-> kw[i].k, x |-> Trans("pre", kw[i].x)]]]

PreEvent(a, kw) == [e |-> "pre", args |-> a, kwargs |-> kw]

PostEvent(r) == [e |-> "post", of |-> r]

\* postprocess(r) for the value r that func returned.
Post(r) == [r EXCEPT !.by = Append(@, "post")]

\* The wrapper that unpacks what preprocess returns into func's positional
\* and keyword arguments.
IOCallUnpacking(sig, hasPre, hasPost, a, kw) ==
    LET p == PreResult(a, kw)
        ca == IF hasPre THEN p.pargs ELSE a
        ckw == IF hasPre THEN p.pkwargs ELSE kw
        r == Call(sig, ca, ckw)
        pre == IF hasPre THEN <<PreEvent(a, kw)>> ELSE <<>>
    IN  IF hasPost /\ r.status = "ok"
        THEN [res |-> Post(r),
              events |-> pre \o <<CallEvent(ca, ckw), PostEvent(r)>>]
        ELSE [res |-> r, events |-> pre \o <<CallEvent(ca, ckw)>>]

\* The decorator with its first branch left out: with both a preprocess and a
\* postprocess given, only the preprocess is applied.
IOCallPreOnly(sig, hasPre, hasPost, a, kw) ==
    LET ca == IF hasPre THEN <<PreResult(a, kw)>> ELSE a
        ckw == IF hasPre THEN <<>> ELSE kw
        r == Call(sig, ca, ckw)
        pre == IF hasPre THEN <<PreEvent(a, kw)>> ELSE <<>>
    IN  IF hasPost /\ ~hasPre /\ r.status = "ok"
        THEN [res |-> Post(r),
              events |-> pre \o <<CallEvent(ca, ckw), PostEvent(r)>>]
        ELSE [res |-> r, events |-> pre \o <<CallEvent(ca, ckw)>>]

\* input_output_decorator(preprocess, postprocess)(func)(*a, **kw): what it
\* returns or raises and the calls it makes, in order.  With a preprocess,
\* func is called with one positional argument, the value preprocess returned.
IOCall(sig, hasPre, hasPost, a, kw) ==
    LET ca == IF hasPre THEN <<PreResult(a, kw)>> ELSE a
        ckw == IF hasPre THEN <<>> ELSE kw
        r == Call(sig, ca, ckw)
        pre == IF hasPre THEN <<PreEvent(a, kw)>> ELSE <<>>
    IN  IF hasPost /\ r.status = "ok"
        THEN [res |-> Post(r),
              events |-> pre \o <<CallEvent(ca, ckw), PostEvent(r)>>]
        ELSE [res |-> r, events |-> pre \o <<CallEvent(ca, ckw)>>]

\* ------------------------------------------------------------------ classes
\* The method names a wrapping may name: add and multiply are the methods of
\* the class under test, divide is a method that no class has.
MethodNames == <<"add", "multiply", "divide">>

MethodSet == {MethodNames[i] : i \in 1..Len(MethodNames)}

\* The function that class c defines under the name m.
Original(c, m) == [home |-> c, name |-> m, layers |-> <<>>]

\* wrapper_for_method[w](impl): the wrapper registered under the method name
\* w, applied to an implementation.
Wrap(w, impl) == [impl EXCEPT !.layers = Append(@, w)]

\* A class object: its base class (0: none) and its own __dict__.
\* Class 1 is  class A: add, multiply;  class 2 is  class B(A): multiply.
InitHeap ==
    <<[base |-> 0, dict |-> [m \in {"add", "multiply"} |-> Original(1, m)]],
      [base |-> 1, dict |-> [m \in {"multiply"} |-> Original(2, m)]]>>

RECURSIVE HasAttr(_, _, _)
\* hasattr(c, m): the class or one of its bases defines m.
HasAttr(h, c, m) ==
    c # 0 /\ (m \in DOMAIN h[c].dict \/ HasAttr(h, h[c].base, m))

RECURSIVE GetAttr(_, _, _)
\* getattr(c, m), for a class that has m.
GetAttr(h, c, m) ==
    IF m \in DOMAIN h[c].dict THEN h[c].dict[m] ELSE GetAttr(h, h[c].base, m)

\* setattr(c, m, impl): written to the class's own __dict__.
SetAttr(h, c, m, impl) ==
    [h EXCEPT ![c].dict =
        [n \in (DOMAIN h[c].dict) \cup {m} |-> IF n = m THEN impl ELSE h[c].dict[n]]]

\* The batches of wrap_class_methods(**wrapper_for_method): the method names
\* it names, in the order given.
WrapSpecs ==
    {s \in UNION {[1..l -> MethodSet] : l \in 0..Len(MethodNames)} :
        \A i, j \in 1..Len(s) : s[i] = s[j] => i = j}

RECURSIVE WrapLoop(_, _, _, _, _, _)
\* The loop of class_wrapper over wrapper_for_method.items(), from its i-th
\* item on; cls is the class given, ncls the class the code calls _cls:
\*   if hasattr(_cls, method): setattr(cls, method, wrapper(getattr(cls, method)))
\*   elif _raise_error_if_non_existent_method: raise ValueError
WrapLoop(h, cls, ncls, raiseErr, wspec, i) ==
    IF i > Len(wspec) THEN [heap |-> h, err |-> "none"]
    ELSE IF HasAttr(h, ncls, wspec[i])
    THEN WrapLoop(
             SetAttr(h, cls, wspec[i], Wrap(wspec[i], GetAttr(h, cls, wspec[i]))),
             cls, ncls, raiseErr, wspec, i + 1)
    ELSE IF raiseErr THEN [heap |-> h, err |-> "ValueError"]
    ELSE WrapLoop(h, cls, ncls, raiseErr, wspec, i + 1)

\* type('_' + cls.__name__, cls.__bases__, dict(cls.__dict__)): a new class
\* with the bases of c and a copy of its __dict__.
CopyOfClass(h, c) == [base |-> h[c].base, dict |-> h[c].dict]

\* class_wrapper that makes a copy whatever the flag says.
ClassWrapperAlwaysCopy(h, c, copy, raiseErr, wspec) ==
    LET r == WrapLoop(Append(h, CopyOfClass(h, c)), c, Len(h) + 1, raiseErr, wspec, 1)
    IN  [heap |-> r.heap, err |-> r.err,
         ret |-> IF r.err = "none" THEN Len(h) + 1 ELSE 0]

\* wrap_class_methods(copy, raiseErr, **wspec)(c): the heap it leaves, the
\* error it raises ("none": none) and the class it returns (0: it raised).
ClassWrapper(h, c, copy, raiseErr, wspec) ==
    LET h1 == IF copy THEN Append(h, CopyOfClass(h, c)) ELSE h
        ncls == IF copy THEN Len(h) + 1 ELSE c
        r == WrapLoop(h1, c, ncls, raiseErr, wspec, 1)
    IN  [heap |-> r.heap, err |-> r.err,
         ret |-> IF r.err = "none" THEN ncls ELSE 0]

\* wrap_class_methods_input_and_output(copy, raiseErr, **method_trans_spec)(c):
\* it builds one wrapper per method and calls
\*   wrap_class_methods(_return_a_copy_of_the_class=True,
\*                      _raise_error_if_non_existent_method=True, **wrapper_for_method)
ClassWrapperInputAndOutput(h, c, copy, raiseErr, wspec) ==
    ClassWrapper(h, c, TRUE, TRUE, wspec)

\* ---------------------------------------------------------------- methods
\* The instance a method is called on: a value that no argument and no
\* default is equal to.
Receiver == Atom(MaxVal + Len(ParamNames) + 1)

\* The signature of the method  def m(self, <sig>).
MethodSig(sig) ==
    <<[name |-> "self", hasDefault |-> FALSE, default |-> Atom(0)]>> \o sig

\* logger(what_to_log(func, args, kwargs)): the sink is called with what the
\* formatter makes of the positional and keyword arguments it is given.
LogEvent(a, kw) == [e |-> "log", args |-> a, kwargs |-> kw]

\* The logger for bound functions that leaves the receiver out of the call
\* as it leaves it out of the log.
LoggedCallDropsReceiver(sig, isBounded, r, a, kw) ==
    IF isBounded
    THEN [res |-> Call(MethodSig(sig), a, kw),
          events |-> <<LogEvent(a, kw), CallEvent(a, kw)>>]
    ELSE [res |-> Call(MethodSig(sig), <<r>> \o a, kw),
          events |-> <<LogEvent(<<r>> \o a, kw), CallEvent(<<r>> \o a, kw)>>]

\* mk_call_logger(logger, what_to_log, func_is_bounded)(m) called as a method
\* of the instance r, r.m(*a, **kw): the sink is called first, with the
\* receiver left out of what is logged for a bound function, then m is
\* called with the receiver and the arguments.
LoggedCall(sig, isBounded, r, a, kw) ==
    [res |-> Call(MethodSig(sig), <<r>> \o a, kw),
     events |-> <<LogEvent(IF isBounded THEN a ELSE <<r>> \o a, kw),
                  CallEvent(<<r>> \o a, kw)>>]

\* What the symbolic method_output_trans returns for the value r.
Out(r) == [r EXCEPT !.by = Append(@, "out")]

OutEvent(r) == [e |-> "out", of |-> r]

\* The method wrapper that returns transform_args' wrapper whether or not a
\* method_output_trans is given.
MethodWrapperCallNoOutput(sig, hasOut, tspec, r, a, kw) ==
    TransformArgsCall(MethodSig(sig), tspec, <<r>> \o a, kw)

\* mk_input_and_output_method_wrapper(method_output_trans, **tspec)(m) called
\* as r.m(*a, **kw): transform_args' wrapper of m is called with the receiver
\* as first positional argument and, when a method_output_trans is given,
\* what it returns goes through it.
MethodWrapperCall(sig, hasOut, tspec, r, a, kw) ==
    LET t == TransformArgsCall(MethodSig(sig), tspec, <<r>> \o a, kw)
    IN  IF hasOut /\ t.res.status = "ok"
        THEN [res |-> Out(t.res), events |-> Append(t.events, OutEvent(t.res))]
        ELSE t

\* ----------------------------------------------------------- failing calls
\* The outcome of a call of the user's callable c that raises: the exception
\* is c's own.
Raised(c) == [status |-> "Error", ret |-> <<>>, by |-> <<c>>]

\* The callables of a call that may be the one that raises: func, the
\* preprocess, the postprocess, method_output_trans, or the transform given
\* for an argument name.
Stages == {"func", "pre", "post", "out"} \cup NameSet

\* The signature of the function that calls with a raising callable are made
\* on:  def f(a, b=default), a required and a defaulted parameter.
FailSigs == {Sig(2, 1)}

\* func(*args, **kwargs) where the body of func raises when fail = "func":
\* the arguments are bound first.
CallFailing(sig, a, kw, fail) ==
    IF fail = "func" /\ Call(sig, a, kw).status = "ok"
    THEN Raised("func")
    ELSE Call(sig, a, kw)

\* The loop that goes on with the untransformed value when a transform raises.
RECURSIVE TransformLoopSwallowing(_, _, _, _, _)

TransformLoopSwallowing(val, tspec, i, events, fail) ==
    IF i > Len(tspec) THEN [status |-> "ok", map |-> val, events |-> events]
    ELSE IF tspec[i] \notin Keys(val)
    THEN [status |-> "KeyError", map |-> val, events |-> events]
    ELSE LET x == Get(val, tspec[i])
             ev == Append(events, [e |-> "trans", name |-> tspec[i], x |-> x])
         IN  IF tspec[i] = fail
             THEN TransformLoopSwallowing(val, tspec, i + 1, ev, fail)
             ELSE TransformLoopSwallowing(Put(val, tspec[i], Trans(tspec[i], x)),
                                          tspec, i + 1, ev, fail)

\* The loop of transform_args when the transform given for the name fail
\* raises: the loop ends with that call.
RECURSIVE TransformLoopFailing(_, _, _, _, _)

TransformLoopFailing(val, tspec, i, events, fail) ==
    IF i > Len(tspec) THEN [status |-> "ok", map |-> val, events |-> events]
    ELSE IF tspec[i] \notin Keys(val)
    THEN [status |-> "KeyError", map |-> val, events |-> events]
    ELSE LET x == Get(val, tspec[i])
             ev == Append(events, [e |-> "trans", name |-> tspec[i], x |-> x])
         IN  IF tspec[i] = fail
             THEN [status |-> "Error", map |-> val, events |-> ev]
             ELSE TransformLoopFailing(Put(val, tspec[i], Trans(tspec[i], x)),
                                       tspec, i + 1, ev, fail)

\* transform_args(**tspec)(func)(*args, **kwargs) when the callable fail
\* raises.
TransformArgsCallFailing(sig, tspec, a, kw, fail) ==
    IF Len(tspec) = 0
    THEN [res |-> CallFailing(sig, a, kw, fail), events |-> <<CallEvent(a, kw)>>]
    ELSE LET m == IF Len(a) > 0 THEN BindPartial(sig, a, kw) ELSE MapOk(kw)
         IN  IF m.status # "ok" THEN [res |-> Raise(m.status), events |-> <<>>]
             ELSE LET t == TransformLoopFailing(m.map, tspec, 1, <<>>, fail)
                  IN  IF t.status = "Error"
                      THEN [res |-> Raised(fail), events |-> t.events]
                      ELSE IF t.status # "ok"
                      THEN [res |-> Raise(t.status), events |-> t.events]
                      ELSE [res |-> CallFailing(sig, <<>>, t.map, fail),
                            events |-> Append(t.events, CallEvent(<<>>, t.map))]

\* input_output_decorator(preprocess, postprocess)(func)(*a, **kw) when the
\* callable fail raises.
IOCallFailing(sig, hasPre, hasPost, a, kw, fail) ==
    IF hasPre /\ fail = "pre"
    THEN [res |-> Raised("pre"), events |-> <<PreEvent(a, kw)>>]
    ELSE LET ca == IF hasPre THEN <<PreResult(a, kw)>> ELSE a
             ckw == IF hasPre THEN <<>> ELSE kw
             r == CallFailing(sig, ca, ckw, fail)
             pre == IF hasPre THEN <<PreEvent(a, kw)>> ELSE <<>>
         IN  IF hasPost /\ r.status = "ok"
             THEN [res |-> IF fail = "post" THEN Raised("post") ELSE Post(r),
                   events |-> pre \o <<CallEvent(ca, ckw), PostEvent(r)>>]
             ELSE [res |-> r, events |-> pre \o <<CallEvent(ca, ckw)>>]

\* mk_input_and_output_method_wrapper(method_output_trans, **tspec)(m) called
\* as r.m(*a, **kw) when the callable fail raises: wrap_method_output's
\* wrapper around transform_args' wrapper around m.
MethodWrapperCallFailing(sig, hasOut, tspec, r, a, kw, fail) ==
    LET t == TransformArgsCallFailing(MethodSig(sig), tspec, <<r>> \o a, kw, fail)
    IN  IF hasOut /\ t.res.status = "ok"
        THEN [res |-> IF fail = "out" THEN Raised("out") ELSE Out(t.res),
              events |-> Append(t.events, OutEvent(t.res))]
        ELSE t

\* ------------------------------ mk_method_trans_spec_from_methods_specs_dict
\* The most groups a methods_specs_dict has.
MaxGroups == 2

\* The method names the groups name, and the keys and values of their specs:
\* argument names or method_output_trans, each mapped to a function.
GroupMethods == <<"foo", "bar">>

SpecKeys == <<"x", "method_output_trans">>

SpecFuncs == {"g", "h"}

\* A key of methods_specs_dict: one method name as a string, or a tuple of
\* method names.
StrKey(m) == [str |-> TRUE, names |-> <<m>>]

TupleKey(ms) == [str |-> FALSE, names |-> ms]

GroupKeys ==
    {StrKey(GroupMethods[i]) : i \in 1..Len(GroupMethods)} \cup
    {TupleKey(ms) : ms \in UNION {[1..l -> {GroupMethods[i] : i \in 1..Len(GroupMethods)}] :
                                    l \in 0..Len(GroupMethods)}}

GroupSpecs ==
    {d \in UNION {[1..l -> {[k |-> SpecKeys[i], x |-> f] :
                                i \in 1..Len(SpecKeys), f \in SpecFuncs}] :
                    l \in 0..Len(SpecKeys)} : DistinctKeys(d)}

\* d.update(specs) that keeps the value a key already has.
RECURSIVE UpdateKeepingOld(_, _, _)

UpdateKeepingOld(d, specs, i) ==
    IF i > Len(specs) THEN d
    ELSE UpdateKeepingOld(IF specs[i].k \in Keys(d) THEN d
                          ELSE Put(d, specs[i].k, specs[i].x), specs, i + 1)

\* d.update(specs), from the item i of specs on.
RECURSIVE Update(_, _, _)

Update(d, specs, i) ==
    IF i > Len(specs) THEN d
    ELSE Update(Put(d, specs[i].k, specs[i].x), specs, i + 1)

\* method_trans_spec[method] of the defaultdict(dict): a missing method has
\* the empty dict.
SpecOf(t, method) == IF method \in Keys(t) THEN Get(t, method) ELSE <<>>

\* The inner loop: for method in methods: method_trans_spec[method].update(specs)
RECURSIVE UpdateMethods(_, _, _, _)

UpdateMethods(t, methods, specs, j) ==
    IF j > Len(methods) THEN t
    ELSE UpdateMethods(Put(t, methods[j], Update(SpecOf(t, methods[j]), specs, 1)),
                       methods, specs, j + 1)

\* The outer loop over methods_specs_dict.items(), from the group i on; a
\* string key stands for the tuple of that one name.
RECURSIVE MkMethodTransSpec(_, _, _)

MkMethodTransSpec(t, d, i) ==
    IF i > Len(d) THEN t
    ELSE MkMethodTransSpec(UpdateMethods(t, d[i].k.names, d[i].x, 1), d, i + 1)

\* ---------------------------------------------------------------- state
VARIABLES
    op,        \* the operation last performed ("none": nothing yet)
    func,      \* the signature of the function it was performed on
    args,      \* the positional arguments of the call
    kwargs,    \* the keyword arguments of the call
    tspec,     \* the names transform_args was given transforms for
    pre,       \* whether input_output_decorator was given a preprocess
    post,      \* whether input_output_decorator was given a postprocess (a
               \* method wrapper: a method_output_trans)
    merged,    \* mk_args_kwargs_merger(func)(args, kwargs)
    direct,    \* func(*args, **kwargs), the undecorated call
    result,    \* what the operation returned or raised
    events,    \* the calls the operation made, in order
    heap,      \* the class objects, by identity
    wraps,     \* the number of class wrappings done
    last,      \* the class wrapping last done: its inputs, the heap before
               \* it, the class it returned and the error it raised
    deco,      \* the callable the decorator returned
    fail,      \* the callable of the call that raises ("none": none does)
    recv,      \* the receiver of a method call
    bounded,   \* the func_is_bounded flag mk_call_logger was given
    msd,       \* the methods_specs_dict given
    mts        \* the method_trans_spec made from it

fvars == <<op, func, args, kwargs, tspec, pre, post, merged, direct, result, events>>

cvars == <<heap, wraps, last>>

\* The state of the method wrappers, of the failing calls and of the
\* specification expansion.
xvars == <<fail, recv, bounded, msd, mts>>

vars == <<fvars, cvars, deco, xvars>>

Init ==
    /\ op = "none"
    /\ func = <<>>
    /\ args = <<>>
    /\ kwargs = <<>>
    /\ tspec = <<>>
    /\ pre = FALSE
    /\ post = FALSE
    /\ merged = MapOk(<<>>)
    /\ direct = Raise("none")
    /\ result = Raise("none")
    /\ events = <<>>
    /\ heap = InitHeap
    /\ wraps = 0
    /\ last = [op |-> "none", target |-> 0, copy |-> FALSE, raiseErr |-> FALSE,
               wspec |-> <<>>, before |-> InitHeap, ret |-> 0, err |-> "none"]
    /\ deco = [kind |-> "none"]
    /\ fail = "none"
    /\ recv = Atom(0)
    /\ bounded = FALSE
    /\ msd = <<>>
    /\ mts = <<>>

\* merger = mk_args_kwargs_merger(f); f(**merger(args, kwargs))
MergeAndCall ==
    /\ op = "none"
    /\ \E f \in Sigs, a \in ArgSeqs, kw \in KwSeqs :
        /\ op' = "merge"
        /\ func' = f
        /\ args' = a
        /\ kwargs' = kw
        /\ merged' = MergeArgsAndKwargs(f, a, kw)
        /\ direct' = Call(f, a, kw)
        /\ result' = CallMerged(f, MergeArgsAndKwargs(f, a, kw))
        /\ UNCHANGED <<tspec, pre, post, events, cvars, deco, xvars>>

\* transform_args(**ts)(f)(*args, **kwargs)
CallTransformed ==
    /\ op = "none"
    /\ \E f \in Sigs, ts \in TransSpecs, a \in ArgSeqs, kw \in KwSeqs :
        /\ op' = "transform_args"
        /\ func' = f
        /\ args' = a
        /\ kwargs' = kw
        /\ tspec' = ts
        /\ direct' = Call(f, a, kw)
        /\ result' = TransformArgsCall(f, ts, a, kw).res
        /\ events' = TransformArgsCall(f, ts, a, kw).events
        /\ deco' = TransformArgsDecorator(Function(f), ts)
        /\ UNCHANGED <<pre, post, merged, cvars, xvars>>

\* input_output_decorator(preprocess, postprocess)(f)(*args, **kwargs)
CallIODecorated ==
    /\ op = "none"
    /\ \E f \in Sigs, hasPre \in BOOLEAN, hasPost \in BOOLEAN,
          a \in ArgSeqs, kw \in KwSeqs :
        /\ op' = "io"
        /\ func' = f
        /\ args' = a
        /\ kwargs' = kw
        /\ pre' = hasPre
        /\ post' = hasPost
        /\ direct' = Call(f, a, kw)
        /\ result' = IOCall(f, hasPre, hasPost, a, kw).res
        /\ events' = IOCall(f, hasPre, hasPost, a, kw).events
        /\ deco' = IODecorator(Function(f), hasPre, hasPost)
        /\ UNCHANGED <<tspec, merged, cvars, xvars>>

\* wrap_class_methods(copy, raiseErr, **ws)(c) for a class c of the heap
WrapClassMethods ==
    /\ wraps < MaxWraps
    /\ \E c \in 1..Len(heap), copy \in BOOLEAN, raiseErr \in BOOLEAN, ws \in WrapSpecs :
        LET r == ClassWrapper(heap, c, copy, raiseErr, ws)
        IN  /\ heap' = r.heap
            /\ last' = [op |-> "wrap", target |-> c, copy |-> copy,
                         raiseErr |-> raiseErr, wspec |-> ws, before |-> heap,
                         ret |-> r.ret, err |-> r.err]
    /\ wraps' = wraps + 1
    /\ UNCHANGED <<fvars, deco, xvars>>

\* wrap_class_methods_input_and_output(copy, raiseErr, **ws)(c)
WrapClassMethodsInputAndOutput ==
    /\ wraps < MaxWraps
    /\ \E c \in 1..Len(heap), copy \in BOOLEAN, raiseErr \in BOOLEAN, ws \in WrapSpecs :
        LET r == ClassWrapperInputAndOutput(heap, c, copy, raiseErr, ws)
        IN  /\ heap' = r.heap
            /\ last' = [op |-> "wrap_io", target |-> c, copy |-> copy,
                         raiseErr |-> raiseErr, wspec |-> ws, before |-> heap,
                         ret |-> r.ret, err |-> r.err]
    /\ wraps' = wraps + 1
    /\ UNCHANGED <<fvars, deco, xvars>>

\* mk_method_trans_spec_from_methods_specs_dict(d), for the dict d that has
\* one more group than the dict of the call before
ExpandMethodsSpecs ==
    /\ op \in {"none", "method_trans_spec"}
    /\ Len(msd) < MaxGroups
    /\ \E key \in GroupKeys \ Keys(msd), sp \in GroupSpecs :
        /\ op' = "method_trans_spec"
        /\ msd' = Append(msd, [k |-> key, x |-> sp])
        /\ mts' = MkMethodTransSpec(<<>>, Append(msd, [k |-> key, x |-> sp]), 1)
        /\ UNCHANGED <<func, args, kwargs, tspec, pre, post, merged, direct,
                       result, events, cvars, deco, fail, recv, bounded>>

\* r.m(*args, **kwargs) for a method m wrapped by mk_call_logger
CallLogged ==
    /\ op = "none"
    /\ \E f \in Sigs, isBounded \in BOOLEAN, a \in ArgSeqs, kw \in KwSeqs :
        /\ op' = "logged"
        /\ func' = f
        /\ args' = a
        /\ kwargs' = kw
        /\ recv' = Receiver
        /\ bounded' = isBounded
        /\ direct' = Call(MethodSig(f), <<Receiver>> \o a, kw)
        /\ result' = LoggedCall(f, isBounded, Receiver, a, kw).res
        /\ events' = LoggedCall(f, isBounded, Receiver, a, kw).events
        /\ UNCHANGED <<tspec, pre, post, merged, cvars, deco, fail, msd, mts>>

\* r.m(*args, **kwargs) for a method m wrapped by
\* mk_input_and_output_method_wrapper(method_output_trans, **ts)
CallMethodWrapped ==
    /\ op = "none"
    /\ \E f \in Sigs, hasOut \in BOOLEAN, ts \in TransSpecs,
          a \in ArgSeqs, kw \in KwSeqs :
        /\ op' = "method"
        /\ func' = f
        /\ args' = a
        /\ kwargs' = kw
        /\ tspec' = ts
        /\ post' = hasOut
        /\ recv' = Receiver
        /\ direct' = Call(MethodSig(f), <<Receiver>> \o a, kw)
        /\ result' = MethodWrapperCall(f, hasOut, ts, Receiver, a, kw).res
        /\ events' = MethodWrapperCall(f, hasOut, ts, Receiver, a, kw).events
        /\ UNCHANGED <<pre, merged, cvars, deco, fail, bounded, msd, mts>>

\* transform_args(**ts)(f)(*args, **kwargs) where f or a transform raises
CallTransformedFailing ==
    /\ op = "none"
    /\ \E f \in FailSigs, ts \in TransSpecs, a \in ArgSeqs, kw \in KwSeqs,
          x \in Stages :
        /\ x = "func" \/ \E i \in 1..Len(ts) : ts[i] = x
        /\ op' = "transform_args_fail"
        /\ func' = f
        /\ args' = a
        /\ kwargs' = kw
        /\ tspec' = ts
        /\ fail' = x
        /\ direct' = CallFailing(f, a, kw, x)
        /\ result' = TransformArgsCallFailing(f, ts, a, kw, x).res
        /\ events' = TransformArgsCallFailing(f, ts, a, kw, x).events
        /\ UNCHANGED <<pre, post, merged, cvars, deco, recv, bounded, msd, mts>>

\* input_output_decorator(preprocess, postprocess)(f)(*args, **kwargs) where
\* f, the preprocess or the postprocess raises
CallIODecoratedFailing ==
    /\ op = "none"
    /\ \E f \in FailSigs, hasPre \in BOOLEAN, hasPost \in BOOLEAN,
          a \in ArgSeqs, kw \in KwSeqs, x \in Stages :
        /\ x = "func" \/ (x = "pre" /\ hasPre) \/ (x = "post" /\ hasPost)
        /\ op' = "io_fail"
        /\ func' = f
        /\ args' = a
        /\ kwargs' = kw
        /\ pre' = hasPre
        /\ post' = hasPost
        /\ fail' = x
        /\ direct' = CallFailing(f, a, kw, x)
        /\ result' = IOCallFailing(f, hasPre, hasPost, a, kw, x).res
        /\ events' = IOCallFailing(f, hasPre, hasPost, a, kw, x).events
        /\ UNCHANGED <<tspec, merged, cvars, deco, recv, bounded, msd, mts>>

\* r.m(*args, **kwargs) for a method m wrapped by
\* mk_input_and_output_method_wrapper(method_output_trans, **ts), where m, a
\* transform or method_output_trans raises
CallMethodWrappedFailing ==
    /\ op = "none"
    /\ \E f \in FailSigs, hasOut \in BOOLEAN, ts \in TransSpecs,
          a \in ArgSeqs, kw \in KwSeqs, x \in Stages :
        /\ x = "func" \/ (x = "out" /\ hasOut) \/ \E i \in 1..Len(ts) : ts[i] = x
        /\ op' = "method_fail"
        /\ func' = f
        /\ args' = a
        /\ kwargs' = kw
        /\ tspec' = ts
        /\ post' = hasOut
        /\ recv' = Receiver
        /\ fail' = x
        /\ direct' = CallFailing(MethodSig(f), <<Receiver>> \o a, kw, x)
        /\ result' = MethodWrapperCallFailing(f, hasOut, ts, Receiver, a, kw, x).res
        /\ events' = MethodWrapperCallFailing(f, hasOut, ts, Receiver, a, kw, x).events
        /\ UNCHANGED <<pre, merged, cvars, deco, bounded, msd, mts>>

Next == MergeAndCall

\* One use of the argument merger.
Spec == Init /\ [][Next]_vars

NextTransform == CallTransformed

\* One call of a function decorated by transform_args.
SpecTransform == Init /\ [][NextTransform]_vars

NextIO == CallIODecorated

\* One call of a function decorated by input_output_decorator.
SpecIO == Init /\ [][NextIO]_vars

NextClass ==
    \/ WrapClassMethods
    \/ WrapClassMethodsInputAndOutput

\* Wrappings of the methods of the classes of the heap.
SpecClass == Init /\ [][NextClass]_vars

NextLogger == CallLogged

\* Calls of methods wrapped by mk_call_logger.
SpecLogger == Init /\ [][NextLogger]_vars

NextMethod == CallMethodWrapped

\* Calls of methods wrapped by mk_input_and_output_method_wrapper.
SpecMethod == Init /\ [][NextMethod]_vars

NextCalls ==
    \/ CallTransformed
    \/ CallIODecorated

\* Calls through either function decorator.
SpecCalls == Init /\ [][NextCalls]_vars

NextFail ==
    \/ CallTransformedFailing
    \/ CallIODecoratedFailing
    \/ CallMethodWrappedFailing

\* Calls through the wrappers in which one of the user's callables raises.
SpecFail == Init /\ [][NextFail]_vars

NextSpecs == ExpandMethodsSpecs

\* The expansion of a methods_specs_dict.
SpecSpecs == Init /\ [][NextSpecs]_vars

\* ------------------------------------------------------------ the merger
\* The names of the parameters a call gives a value to, positionally or by
\* keyword.
Supplied(sig, a, kw) ==
    {sig[i].name : i \in {j \in 1..Len(sig) : j <= Len(a)}} \cup Keys(kw)

\* The value a valid call supplies for its i-th parameter.
SuppliedValue(sig, a, kw, i) ==
    IF i <= Len(a) THEN a[i] ELSE Get(kw, sig[i].name)

\* C1: for every valid call f(*args, **kwargs), calling f(**merge(args,
\* kwargs)) returns what f(*args, **kwargs) returns.
C1_RoundTrip ==
    (op = "merge" /\ direct.status = "ok") => result = direct

\* A valid mixed call that leaves a defaulted parameter out.
C1_Witness ==
    /\ op = "merge"
    /\ direct.status = "ok"
    /\ Len(args) > 0
    /\ Len(kwargs) > 0
    /\ Len(direct.ret) > Len(args) + Len(kwargs)

\* C2 as stated: with a positional argument given, the merged mapping binds
\* every supplied parameter to its value, every omitted parameter that has a
\* default to that default, and leaves out every other parameter.
C2_DefaultsApplied ==
    (op = "merge" /\ Len(args) > 0 /\ merged.status = "ok") =>
        \A i \in 1..Len(func) :
            LET n == func[i].name
            IN  IF n \in Supplied(func, args, kwargs)
                THEN /\ n \in Keys(merged.map)
                     /\ Get(merged.map, n) = SuppliedValue(func, args, kwargs, i)
                ELSE IF func[i].hasDefault
                THEN /\ n \in Keys(merged.map)
                     /\ Get(merged.map, n) = func[i].default
                ELSE n \notin Keys(merged.map)

\* C2 as the code has it: with a positional argument given, the merged mapping
\* binds every supplied parameter to its value and leaves out every omitted
\* parameter, whether or not it has a default; it holds nothing else.
C2_SuppliedOnly ==
    (op = "merge" /\ Len(args) > 0 /\ merged.status = "ok") =>
        /\ Keys(merged.map) = Supplied(func, args, kwargs)
        /\ Keys(merged.map) \subseteq SigNames(func)
        /\ Len(merged.map) = Cardinality(Keys(merged.map))
        /\ \A i \in 1..Len(func) :
               func[i].name \in Supplied(func, args, kwargs) =>
                   Get(merged.map, func[i].name) =
                       SuppliedValue(func, args, kwargs, i)

\* A merge with a positional argument that omits a parameter with a default
\* and a parameter without one.
C2_Witness ==
    /\ op = "merge"
    /\ Len(args) > 0
    /\ merged.status = "ok"
    /\ \E i \in 1..Len(func) :
           func[i].hasDefault /\ func[i].name \notin Supplied(func, args, kwargs)
    /\ \E i \in 1..Len(func) :
           ~func[i].hasDefault /\ func[i].name \notin Supplied(func, args, kwargs)

\* C3: with no positional argument the merger returns kwargs as it is: the
\* same keys, values and key order, nothing added from the signature.
C3_EmptyArgsIdentity ==
    (op = "merge" /\ args = <<>>) => merged = MapOk(kwargs)

\* A merge without positional arguments whose kwargs are not in declared
\* order, for a function with a defaulted parameter they do not name.
C3_Witness ==
    /\ op = "merge"
    /\ args = <<>>
    /\ Len(kwargs) = 2
    /\ kwargs[1].k = "b"
    /\ kwargs[2].k = "a"
    /\ func = Sig(3, 1)
    /\ merged.status = "ok"

\* -------------------------------------------------------- transform_args
TransEvents(t) ==
    {j \in 1..Len(events) : events[j].e = "trans" /\ events[j].name = t}

Targets == {tspec[i] : i \in 1..Len(tspec)}

\* C4: for a valid call that supplies every targeted argument, positionally
\* or by keyword and in any order, the decorated function returns what f
\* returns on the same arguments with each targeted one replaced by its own
\* transform of it; each transform is called exactly once, f once, and the
\* omitted parameters take their defaults.
C4_TransformByName ==
    (/\ op = "transform_args"
     /\ direct.status = "ok"
     /\ Targets \subseteq Supplied(func, args, kwargs)) =>
        /\ result.status = "ok"
        /\ Len(result.ret) = Len(direct.ret)
        /\ \A i \in 1..Len(direct.ret) :
               /\ result.ret[i].k = direct.ret[i].k
               /\ result.ret[i].x =
                      IF direct.ret[i].k \in Targets
                      THEN Trans(direct.ret[i].k, direct.ret[i].x)
                      ELSE direct.ret[i].x
        /\ \A t \in Targets : Cardinality(TransEvents(t)) = 1
        /\ Len(events) = Len(tspec) + 1
        /\ events[Len(events)].e = "call"

\* wrapped(a0, b0) for f(a, b, c=default) decorated by transform_args(a=g).
C4_Witness ==
    /\ op = "transform_args"
    /\ func = Sig(3, 1)
    /\ tspec = <<"a">>
    /\ Len(args) = 2
    /\ kwargs = <<>>
    /\ result.status = "ok"
    /\ Get(result.ret, "a") = Trans("a", args[1])
    /\ Get(result.ret, "c") = func[3].default

\* wrapped(b=b0, a=a0) for the same function: the keyword form of C4.
C4_KeywordWitness ==
    /\ op = "transform_args"
    /\ func = Sig(3, 1)
    /\ tspec = <<"a">>
    /\ args = <<>>
    /\ Len(kwargs) = 2
    /\ kwargs[1].k = "b"
    /\ kwargs[2].k = "a"
    /\ result.status = "ok"

\* ---------------------------------------------------- wrap_class_methods
\* The methods a wrapping names that the class given has.
NamedExisting ==
    {m \in {last.wspec[i] : i \in 1..Len(last.wspec)} :
        HasAttr(last.before, last.target, m)}

NamesMissing ==
    \E i \in 1..Len(last.wspec) : ~HasAttr(last.before, last.target, last.wspec[i])

\* The wrapped version of the method m of the class given.
Wrapped(m) == Wrap(m, GetAttr(last.before, last.target, m))

\* C5: in copy mode the class given is left as it was: every method of it,
\* those the wrapping names included, is still the original implementation.
C5_CopyLeavesOriginal ==
    (last.op = "wrap" /\ last.copy) =>
        \A m \in MethodSet :
            HasAttr(last.before, last.target, m) =>
                GetAttr(heap, last.target, m) = GetAttr(last.before, last.target, m)

\* C6: the class returned has, for every named method that exists, the
\* wrapper applied to the original attribute, in copy mode and in place.
C6_ReturnedClassWrapped ==
    (last.op = "wrap" /\ last.err = "none") =>
        \A m \in NamedExisting : GetAttr(heap, last.ret, m) = Wrapped(m)

\* C7: in in-place mode the decorator returns the class object it was given,
\* makes no other class, and that object's named methods are now their
\* wrapped versions.
C7_InPlaceMutatesGiven ==
    (last.op = "wrap" /\ ~last.copy /\ last.err = "none") =>
        /\ last.ret = last.target
        /\ Len(heap) = Len(last.before)
        /\ \A m \in NamedExisting :
               /\ m \in DOMAIN heap[last.target].dict
               /\ heap[last.target].dict[m] = Wrapped(m)

\* An in-place wrapping of class B of the method add, which B inherits.
C7_Witness ==
    /\ last.op = "wrap"
    /\ ~last.copy
    /\ last.err = "none"
    /\ last.target = 2
    /\ "add" \in NamedExisting
    /\ heap # last.before

\* C8: wrap_class_methods_input_and_output honours its flags: without the
\* copy flag it returns the class given, with it another class; when a named
\* method is missing it raises if the error flag is set and does not if not.
C8_FlagsHonoured ==
    (last.op = "wrap_io") =>
        /\ (last.err = "none" => (last.ret = last.target <=> ~last.copy))
        /\ (NamesMissing => (last.err = "ValueError" <=> last.raiseErr))

\* C9: when the batch names a method the class lacks, wrap_class_methods
\* raises the missing-method error if the error flag is set; if not, it
\* returns a class in which every named method that exists is replaced by
\* its wrapped version.
C9_MissingMethod ==
    (last.op = "wrap" /\ NamesMissing) =>
        IF last.raiseErr
        THEN last.err = "ValueError" /\ last.ret = 0
        ELSE /\ last.err = "none"
             /\ last.ret # 0
             /\ \A m \in NamedExisting : GetAttr(heap, last.ret, m) = Wrapped(m)

\* The part of C9 the code keeps in both modes: the error is raised exactly
\* when the flag is set, and without it every named method that exists is
\* wrapped, in the class given.
C9_RaiseOrSkip ==
    (last.op = "wrap" /\ NamesMissing) =>
        IF last.raiseErr
        THEN last.err = "ValueError" /\ last.ret = 0
        ELSE /\ last.err = "none"
             /\ last.ret # 0
             /\ \A m \in NamedExisting : GetAttr(heap, last.target, m) = Wrapped(m)

\* ------------------------------------------------- input_output_decorator
\* C10 as stated: the preprocess receives the raw (args, kwargs) of the call,
\* and the (args, kwargs) pair it returns is what func is invoked with, as
\* its positional and keyword arguments.
C10_PreResultUnpacked ==
    (op = "io" /\ pre) =>
        /\ events[1] = PreEvent(args, kwargs)
        /\ events[2].e = "call"
        /\ events[2].args = PreResult(args, kwargs).pargs
        /\ events[2].kwargs = PreResult(args, kwargs).pkwargs

\* C10 as the code has it: the preprocess is called with the positional and
\* keyword arguments of the call, and the one value it returns is passed to
\* func as its only positional argument, with no keyword argument.
C10_PreResultAsSingleArg ==
    (op = "io" /\ pre) =>
        /\ Len(events) >= 2
        /\ events[1] = PreEvent(args, kwargs)
        /\ events[2] = CallEvent(<<PreResult(args, kwargs)>>, <<>>)
        /\ \A j \in 3..Len(events) : events[j].e = "post"

\* A call with positional and keyword arguments through a preprocess, which
\* func accepts.
C10_Witness ==
    /\ op = "io"
    /\ pre
    /\ Len(args) > 0
    /\ Len(kwargs) > 0
    /\ result.status = "ok"
    /\ result.ret[1].x = PreResult(args, kwargs)

\* C11: with both a preprocess and a postprocess, every invocation calls the
\* preprocess, then func, then the postprocess, in that order and each once,
\* and returns the postprocess of what func returned; an invocation in which
\* func raises ends with that call.
C11_PreCallPostInOrder ==
    (op = "io" /\ pre /\ post) =>
        LET r == Call(func, <<PreResult(args, kwargs)>>, <<>>)
        IN  IF r.status = "ok"
            THEN /\ events = <<PreEvent(args, kwargs),
                               CallEvent(<<PreResult(args, kwargs)>>, <<>>),
                               PostEvent(r)>>
                 /\ result = Post(r)
            ELSE /\ events = <<PreEvent(args, kwargs),
                               CallEvent(<<PreResult(args, kwargs)>>, <<>>)>>
                 /\ result = r

\* An invocation through a preprocess and a postprocess that func accepts:
\* three calls were made and the value returned went through the postprocess.
C11_Witness ==
    /\ op = "io"
    /\ pre
    /\ post
    /\ Len(events) = 3
    /\ events[3].e = "post"
    /\ result.status = "ok"
    /\ result.by = <<"post">>

\* ------------------------------ mk_method_trans_spec_from_methods_specs_dict
\* The groups of the methods_specs_dict given that name the method m.
Naming(m) ==
    {i \in 1..Len(msd) : \E j \in 1..Len(msd[i].k.names) : msd[i].k.names[j] = m}

\* The last of the groups naming m whose spec has the key k.
LastGiving(m, k) ==
    CHOOSE i \in Naming(m) :
        /\ k \in Keys(msd[i].x)
        /\ \A i2 \in Naming(m) : k \in Keys(msd[i2].x) => i2 <= i

\* C12: the expansion has one entry for each method that some group names, by
\* a string key or in a tuple; a method's spec has exactly the keys of the
\* groups naming it, each with the value of the last such group that gives
\* it; a group that does not name the method adds nothing to it.
C12_OneEntryPerMethod ==
    (op = "method_trans_spec") =>
        /\ DistinctKeys(mts)
        /\ Keys(mts) = {GroupMethods[n] : n \in {n2 \in 1..Len(GroupMethods) :
                                                   Naming(GroupMethods[n2]) # {}}}
        /\ \A m \in Keys(mts) :
               LET sp == Get(mts, m)
               IN  /\ DistinctKeys(sp)
                   /\ Keys(sp) = UNION {Keys(msd[i].x) : i \in Naming(m)}
                   /\ \A k \in Keys(sp) :
                          Get(sp, k) = Get(msd[LastGiving(m, k)].x, k)

\* {'foo': {x: g, method_output_trans: g}, ('foo', 'bar'): {x: h}}: foo gets
\* x from the later group and keeps method_output_trans, bar gets only x.
C12_Witness ==
    /\ op = "method_trans_spec"
    /\ Len(msd) = 2
    /\ msd[1].k = StrKey("foo")
    /\ msd[2].k = TupleKey(<<"foo", "bar">>)
    /\ msd[1].x = <<[k |-> "x", x |-> "g"], [k |-> "method_output_trans", x |-> "g"]>>
    /\ msd[2].x = <<[k |-> "x", x |-> "h"]>>
    /\ mts = <<[k |-> "foo", x |-> <<[k |-> "x", x |-> "h"],
                                      [k |-> "method_output_trans", x |-> "g"]>>],
               [k |-> "bar", x |-> <<[k |-> "x", x |-> "h"]>>]>>

\* ---------------------------------------------------------- mk_call_logger
\* C13: every call of a method wrapped by the logger calls the sink once,
\* before the method, then calls the method with the receiver and the
\* arguments of the caller as they were, and returns (or raises) what the
\* method does.
C13_LogOnceThenCall ==
    (op = "logged") =>
        /\ Len(events) = 2
        /\ events[1].e = "log"
        /\ events[1].kwargs = kwargs
        /\ events[1].args = IF bounded THEN args ELSE <<recv>> \o args
        /\ events[2] = CallEvent(<<recv>> \o args, kwargs)
        /\ result = direct

\* r.add(x=x0) and r.add(x0) on a method  def add(self, a)  wrapped for bound
\* functions: the method returned with the receiver as self.
C13_Witness ==
    /\ op = "logged"
    /\ bounded
    /\ func = Sig(1, 0)
    /\ Len(args) + Len(kwargs) = 1
    /\ result.status = "ok"
    /\ result.ret[1] = [k |-> "self", x |-> recv]
    /\ events[1].e = "log"

\* ---------------------------------------------- transform_args: omissions
\* The parameters without a default that the call gives no value for and that
\* a transform targets.
OmittedTargets ==
    {func[i].name : i \in {j \in 1..Len(func) :
        /\ ~func[j].hasDefault
        /\ func[j].name \in Targets
        /\ func[j].name \notin Supplied(func, args, kwargs)}}

\* C14: a call of a transform_args-decorated function that omits a targeted
\* parameter which has no default fails: the error of the lookup of that name
\* (or of the binding of the arguments given) is what the caller gets, and
\* func is not called.
C14_OmittedTargetFails ==
    (op = "transform_args" /\ OmittedTargets # {}) =>
        /\ result.status \in {"KeyError", "TypeError"}
        /\ result.status = "TypeError" <=>
               (Len(args) > 0 /\ BindError(func, args, kwargs))
        /\ \A j \in 1..Len(events) : events[j].e # "call"

\* wrapped(a0) for f(a, b, c=default) decorated by transform_args(b=g): b is
\* omitted, the lookup of b raises and nothing was called.
C14_Witness ==
    /\ op = "transform_args"
    /\ func = Sig(3, 1)
    /\ tspec = <<"b">>
    /\ Len(args) = 1
    /\ kwargs = <<>>
    /\ OmittedTargets = {"b"}
    /\ result.status = "KeyError"
    /\ events = <<>>

\* ------------------------------------------------------------ propagation
\* The signature the calls of func of the operation are bound against.
CalledSig == IF op = "method_fail" THEN MethodSig(func) ELSE func

\* What the j-th call the operation made raised, if it raised.
RaisedAt(j) ==
    IF events[j].e = "call"
    THEN CallFailing(CalledSig, events[j].args, events[j].kwargs, fail)
    ELSE IF events[j].e = "trans"
    THEN IF events[j].name = fail THEN Raised(fail) ELSE Raise("ok")
    ELSE IF events[j].e = fail THEN Raised(fail) ELSE Raise("ok")

\* C15: when func, the preprocess, the postprocess, an argument transform or
\* the output transform of a call raises, that call is the last one the
\* wrapper makes and what it raised is what the caller gets: func is not
\* called after a failing preprocess or argument transform, no postprocess
\* or output transform is applied after a failing call of func.
C15_FailurePropagates ==
    (op \in {"transform_args_fail", "io_fail", "method_fail"}) =>
        \A j \in 1..Len(events) :
            RaisedAt(j).status # "ok" =>
                /\ j = Len(events)
                /\ result = RaisedAt(j)

\* A method call through an argument transform and an output transform in
\* which the method raises: the transform and the method were called, the
\* output transform was not, and the caller gets the method's exception.
C15_Witness ==
    /\ op = "method_fail"
    /\ post
    /\ fail = "func"
    /\ Len(tspec) = 1
    /\ Len(events) = 2
    /\ events[1].e = "trans"
    /\ events[2].e = "call"
    /\ result = Raised("func")

\* A failing argument transform, a failing preprocess, a failing postprocess
\* and a failing output transform, each the last call made.
C15_TransformWitness ==
    /\ op = "transform_args_fail"
    /\ Len(tspec) = 2
    /\ fail = tspec[1]
    /\ Len(events) = 1
    /\ result = Raised(fail)

C15_PreWitness ==
    /\ op = "io_fail"
    /\ fail = "pre"
    /\ post
    /\ Len(events) = 1
    /\ result = Raised("pre")

C15_PostWitness ==
    /\ op = "io_fail"
    /\ fail = "post"
    /\ Len(events) = 3
    /\ result = Raised("post")

C15_OutWitness ==
    /\ op = "method_fail"
    /\ fail = "out"
    /\ Len(events) = Len(tspec) + 2
    /\ events[Len(events)].e = "out"
    /\ result = Raised("out")

\* ------------------------------------------------------------ no transform
\* C16: given no preprocess and no postprocess, input_output_decorator
\* returns the callable it was given, and so does transform_args given no
\* transform: no wrapper is made, and a call is the call of func itself.
C16_NoTransformReturnsFunc ==
    (\/ op = "io" /\ ~pre /\ ~post
     \/ op = "transform_args" /\ tspec = <<>>) =>
        /\ deco = Function(func)
        /\ events = <<CallEvent(args, kwargs)>>
        /\ result = direct

\* transform_args()(f) for f(a, b, c=default), then a valid call of it.
C16_Witness ==
    /\ op = "transform_args"
    /\ tspec = <<>>
    /\ func = Sig(3, 1)
    /\ deco = Function(Sig(3, 1))
    /\ result.status = "ok"

\* input_output_decorator()(f) for the same f.
C16_IOWitness ==
    /\ op = "io"
    /\ ~pre
    /\ ~post
    /\ func = Sig(3, 1)
    /\ deco = Function(Sig(3, 1))
    /\ result.status = "ok"

\* ------------------------------------------------- a batch that raises
\* C17: when a wrapping raises the missing-method error, no method has been
\* replaced: every class there was is as it was before, and a copy that was
\* made is a plain copy of the class given, wherever in the batch the missing
\* name is.
C17_NoReplacementOnError ==
    (last.op \in {"wrap", "wrap_io"} /\ last.err = "ValueError") =>
        \A c \in 1..Len(heap) :
            IF c <= Len(last.before)
            THEN heap[c] = last.before[c]
            ELSE heap[c] = CopyOfClass(last.before, last.target)

\* ----------------------------------- mk_input_and_output_method_wrapper
\* C18: a valid call r.m(...) of a method wrapped with argument transforms
\* and an output transform, which supplies every targeted argument, returns
\* the output transform of what m returns on the receiver and the arguments
\* of the call with each targeted one replaced by its transform: the
\* receiver and the other arguments reach m as they were passed, and the
\* calls made are the argument transforms, then m, then the output transform
\* (none when none was given).
C18_MethodInputAndOutput ==
    (/\ op = "method"
     /\ direct.status = "ok"
     /\ Targets \subseteq Supplied(MethodSig(func), <<recv>> \o args, kwargs)) =>
        /\ result.status = "ok"
        /\ result.by = IF post THEN <<"out">> ELSE <<>>
        /\ Len(result.ret) = Len(direct.ret)
        /\ result.ret[1] = [k |-> "self", x |-> recv]
        /\ \A i \in 1..Len(direct.ret) :
               /\ result.ret[i].k = direct.ret[i].k
               /\ result.ret[i].x =
                      IF direct.ret[i].k \in Targets
                      THEN Trans(direct.ret[i].k, direct.ret[i].x)
                      ELSE direct.ret[i].x
        /\ Len(events) = Len(tspec) + (IF post THEN 2 ELSE 1)
        /\ \A j \in 1..Len(tspec) :
               /\ events[j].e = "trans"
               /\ events[j].name = tspec[j]
        /\ events[Len(tspec) + 1].e = "call"
        /\ post => events[Len(events)] =
                       OutEvent([result EXCEPT !.by = <<>>])

\* r.m(a0) for  def m(self, a, b=default)  wrapped with a=g and an output
\* transform h: the result is h(m(r, g(a0))).
C18_Witness ==
    /\ op = "method"
    /\ post
    /\ func = Sig(2, 1)
    /\ tspec = <<"a">>
    /\ Len(args) = 1
    /\ kwargs = <<>>
    /\ result.status = "ok"
    /\ result.by = <<"out">>
    /\ Get(result.ret, "self") = recv
    /\ Get(result.ret, "a") = Trans("a", args[1])
    /\ Get(result.ret, "b") = func[2].default
    /\ Len(events) = 3

====
